---- MODULE Spec2Model ----
(***************************************************************************)
(* Model of the one-lane (scalar) backend of Vc: Scalar::Vector<T> of      *)
(* src/scalar/vector.h with T = int, its masked operations, pack, the      *)
(* reductions, shifted and the conditional_assign family.                  *)
(*                                                                         *)
(* A Vector<int> is its single lane m_data; a Mask<int> is its single      *)
(* flag.  int is modelled as a two's complement integer of WBits bits.     *)
(* Operations whose behaviour C++ leaves undefined (signed overflow,       *)
(* division by zero, out-of-range shift counts) yield an arbitrary lane    *)
(* and set status to "ub"; a failed VC_ASSERT of a debug build sets        *)
(* status to "assert".  Both end the run.                                  *)
(***************************************************************************)
EXTENDS Integers, Sequences, FiniteSets, TLC

\* width in bits of the modelled int
WBits == 4
\* largest |amount| passed to shifted
MaxAmount == 2

\* static constexpr size_t Size = 1
Size == 1

RECURSIVE Pow2(_)
Pow2(n) == IF n <= 0 THEN 1 ELSE 2 * Pow2(n - 1)

IntMin == 0 - Pow2(WBits - 1)
IntMax == Pow2(WBits - 1) - 1
\* the values of EntryType (DetermineEntryType<int>::Type)
EntryType == IntMin .. IntMax

InRange(x) == x >= IntMin /\ x <= IntMax
\* int -> unsigned int and back (modular, as every two's complement build does)
ToUnsigned(x) == x % Pow2(WBits)
ToSigned(u) == IF u >= Pow2(WBits - 1) THEN u - Pow2(WBits) ELSE u
Abs(x) == IF x < 0 THEN 0 - x ELSE x

Def(x) == [defined |-> TRUE, val |-> x]
Undef == [defined |-> FALSE, val |-> 0]
\* an int result: the value when int can represent it, else signed overflow
Checked(x) == IF InRange(x) THEN Def(x) ELSE Undef

\* C++ integer division truncates toward zero
TruncDiv(a, b) ==
    IF (a >= 0) = (b > 0) THEN Abs(a) \div Abs(b) ELSE 0 - (Abs(a) \div Abs(b))

\* one bit of a bitwise operator
BitOf(symbol, x, y) ==
    CASE symbol = "&" -> x * y
      [] symbol = "|" -> IF x + y > 0 THEN 1 ELSE 0
      [] symbol = "^" -> (x + y) % 2

RECURSIVE Bitwise(_, _, _, _)
\* the bitwise operator symbol on the n low bits of the unsigned a and b
Bitwise(symbol, a, b, n) ==
    IF n = 0 THEN 0
    ELSE BitOf(symbol, a % 2, b % 2) + 2 * Bitwise(symbol, a \div 2, b \div 2, n - 1)

\* m_data symbol x.m_data for the arithmetic and binary symbols (OP)
OP(symbol, m_data, x) ==
    CASE symbol = "+" -> Checked(m_data + x)
      [] symbol = "-" -> Checked(m_data - x)
      [] symbol = "*" -> Checked(m_data * x)
      [] symbol = "/" -> IF x = 0 THEN Undef ELSE Checked(TruncDiv(m_data, x))
      [] symbol \in {"&", "|", "^"} ->
            Def(ToSigned(Bitwise(symbol, ToUnsigned(m_data), ToUnsigned(x), WBits)))

\* m_data % x.m_data: the remainder has the sign of the dividend
OPremainder(m_data, x) ==
    IF x = 0 \/ ~InRange(TruncDiv(m_data, x)) THEN Undef
    ELSE Def(m_data - TruncDiv(m_data, x) * x)

\* m_data symbol x.m_data for the shift symbols (OPshift)
OPshift(symbol, m_data, x) ==
    IF x < 0 \/ x >= WBits THEN Undef
    ELSE CASE symbol = "<<" ->
                 IF m_data < 0 \/ m_data * Pow2(x) >= Pow2(WBits) THEN Undef
                 ELSE Def(ToSigned(m_data * Pow2(x)))
           [] symbol = ">>" -> Def(m_data \div Pow2(x))

\* Mask(m_data symbol x.m_data) (OPcmp)
OPcmp(symbol, m_data, x) ==
    CASE symbol = "==" -> m_data = x
      [] symbol = "!=" -> m_data # x
      [] symbol = "<=" -> m_data <= x
      [] symbol = ">=" -> m_data >= x
      [] symbol = "<" -> m_data < x
      [] symbol = ">" -> m_data > x

CompareSymbols == {"==", "!=", "<=", ">=", "<", ">"}

\* Mask::data() and Mask::isFull() of the one-lane mask
data(k) == k
isFull(k) == data(k)

\* Vector::Zero()
Zero == 0

\* Vector(EntryType a): broadcast
Vector(a) == a

\* void setZero()
setZero(m_data) == 0
\* void setZero(Mask k)
setZero_mask(m_data, k) == IF data(k) THEN 0 ELSE m_data
\* setZeroInverted with the test of setZero(Mask k)
setZeroInverted_notInverted(m_data, k) == IF data(k) THEN 0 ELSE m_data
\* void setZeroInverted(Mask k)
setZeroInverted(m_data, k) == IF ~data(k) THEN 0 ELSE m_data

\* assign that ignores its mask
assign_unmasked(m_data, x, m) == x
\* void assign(const Vector<T> &v, const Mask &m): the new m_data
assign(m_data, x, m) == IF data(m) THEN x ELSE m_data

\* pack that flips the masks without copying v2
pack_noCopy(m_data, m1, v2, m2) ==
    IF ~data(m1) /\ data(m2)
    THEN [m_data |-> m_data, m1 |-> TRUE, m2 |-> FALSE, ret |-> TRUE]
    ELSE [m_data |-> m_data, m1 |-> m1, m2 |-> m2, ret |-> data(m1)]
\* pack that returns false whenever it copied nothing
pack_retAbsorbed(m_data, m1, v2, m2) ==
    IF ~data(m1) /\ data(m2)
    THEN [m_data |-> v2, m1 |-> TRUE, m2 |-> FALSE, ret |-> TRUE]
    ELSE [m_data |-> m_data, m1 |-> m1, m2 |-> m2, ret |-> FALSE]
\* pack that leaves m2 set after copying
pack_keepM2(m_data, m1, v2, m2) ==
    IF ~data(m1) /\ data(m2)
    THEN [m_data |-> v2, m1 |-> TRUE, m2 |-> m2, ret |-> TRUE]
    ELSE [m_data |-> m_data, m1 |-> m1, m2 |-> m2, ret |-> data(m1)]
\* bool pack(Mask &m1, Vector<T> &v2, Mask &m2): the new m_data, m1 and m2
\* and the returned bool (return m1 converts the mask to bool)
pack(m_data, m1, v2, m2) ==
    IF ~data(m1) /\ data(m2)
    THEN [m_data |-> v2, m1 |-> TRUE, m2 |-> FALSE, ret |-> TRUE]
    ELSE [m_data |-> m_data, m1 |-> m1, m2 |-> m2, ret |-> data(m1)]

\* the reductions, plain and masked
min(m_data) == m_data
max(m_data) == m_data
product(m_data) == m_data
sum(m_data) == m_data
min_mask(m_data, m) == m_data
max_mask(m_data, m) == m_data
\* product(Mask) with the identity of sum
product_mask_zero(m_data, m) == IF data(m) THEN m_data ELSE 0
product_mask(m_data, m) == IF data(m) THEN m_data ELSE 1
\* sum(Mask) with the mask test inverted
sum_mask_inverted(m_data, m) == IF ~data(m) THEN m_data ELSE 0
sum_mask(m_data, m) == IF data(m) THEN m_data ELSE 0

\* VC_ASSERT(amount >= -1 && amount <= 1) of shifted(amount, shiftIn)
shiftedAssert(amt) == amt >= 0 - 1 /\ amt <= 1
\* shifted(amount, shiftIn) that shifts in for positive amounts only
shifted_fill_positiveOnly(m_data, amt, shiftIn) == IF amt <= 0 THEN m_data ELSE shiftIn
\* Vector shifted(int amount, Vector shiftIn) const
shifted_fill(m_data, amt, shiftIn) == IF amt = 0 THEN m_data ELSE shiftIn
\* Vector shifted(int amount) const
shifted(m_data, amt) == IF amt = 0 THEN m_data ELSE Zero

\* operator++(), operator--(), operator++(int), operator--(int):
\* the new m_data (val) and the returned vector (ret)
Step(m_data, delta, post) ==
    IF InRange(m_data + delta)
    THEN [defined |-> TRUE, val |-> m_data + delta,
          ret |-> IF post THEN m_data ELSE m_data + delta]
    ELSE [defined |-> FALSE, val |-> 0, ret |-> 0]
PreIncrement(m_data) == Step(m_data, 1, FALSE)
PreDecrement(m_data) == Step(m_data, 0 - 1, FALSE)
\* operator++(int) that returns the incremented value
PostIncrement_asPre(m_data) == Step(m_data, 1, FALSE)
PostIncrement(m_data) == Step(m_data, 1, TRUE)
PostDecrement(m_data) == Step(m_data, 0 - 1, TRUE)

\* the Operator tags of the value forms and the compound operator of each
ValueTags == {"Assign", "PlusAssign", "MinusAssign", "MultiplyAssign", "DivideAssign",
              "RemainderAssign", "XorAssign", "AndAssign", "OrAssign",
              "LeftShiftAssign", "RightShiftAssign"}
IncDecTags == {"PostIncrement", "PreIncrement", "PostDecrement", "PreDecrement"}

\* lhs op__ rhs for the op__ that Vc_CONDITIONAL_ASSIGN binds to the tag
CompoundAssign(name, lhs, rhs) ==
    CASE name = "Assign" -> Def(rhs)
      [] name = "PlusAssign" -> OP("+", lhs, rhs)
      [] name = "MinusAssign" -> OP("-", lhs, rhs)
      [] name = "MultiplyAssign" -> OP("*", lhs, rhs)
      [] name = "DivideAssign" -> OP("/", lhs, rhs)
      [] name = "RemainderAssign" -> OPremainder(lhs, rhs)
      [] name = "XorAssign" -> OP("^", lhs, rhs)
      [] name = "AndAssign" -> OP("&", lhs, rhs)
      [] name = "OrAssign" -> OP("|", lhs, rhs)
      [] name = "LeftShiftAssign" -> OPshift("<<", lhs, rhs)
      [] name = "RightShiftAssign" -> OPshift(">>", lhs, rhs)

\* conditional_assign with MinusAssign bound to +=
conditional_assign_minusAsPlus(name, lhs, mask, rhs) ==
    IF isFull(mask)
    THEN CompoundAssign(IF name = "MinusAssign" THEN "PlusAssign" ELSE name, lhs, rhs)
    ELSE Def(lhs)
\* conditional_assign that applies op__ whatever the mask
conditional_assign_unmasked(name, lhs, mask, rhs) == CompoundAssign(name, lhs, rhs)
\* conditional_assign<O>(lhs, mask, rhs): the new lhs
conditional_assign(name, lhs, mask, rhs) ==
    IF isFull(mask) THEN CompoundAssign(name, lhs, rhs) ELSE Def(lhs)

\* expr__ of the increment and decrement forms
IncDecExpr(name, lhs) ==
    CASE name = "PostIncrement" -> PostIncrement(lhs)
      [] name = "PreIncrement" -> PreIncrement(lhs)
      [] name = "PostDecrement" -> PostDecrement(lhs)
      [] name = "PreDecrement" -> PreDecrement(lhs)

\* conditional_assign<O>(lhs, mask): the new lhs (val) and the returned vector
conditional_assign_incdec(name, lhs, mask) ==
    IF isFull(mask) THEN IncDecExpr(name, lhs)
    ELSE [defined |-> TRUE, val |-> lhs, ret |-> lhs]

VARIABLES v, v2, m1, m2, op, tag, amount, old, retB, retV, status

vars == <<v, v2, m1, m2, op, tag, amount, old, retB, retV, status>>

\* the amounts passed to shifted
Amounts == (0 - MaxAmount) .. MaxAmount

TypeOK ==
    /\ v \in EntryType /\ v2 \in EntryType
    /\ m1 \in BOOLEAN /\ m2 \in BOOLEAN
    /\ op \in STRING /\ tag \in STRING /\ amount \in Int
    /\ old \in [v : EntryType, v2 : EntryType, m1 : BOOLEAN, m2 : BOOLEAN]
    /\ retB \in BOOLEAN /\ retV \in EntryType
    /\ status \in {"ok", "ub", "assert"}

\* two vectors constructed by broadcast, Vector<int> v(a), v2(b), and two
\* masks constructed from a bool
Init ==
    /\ v \in {Vector(a) : a \in EntryType}
    /\ v2 \in {Vector(a) : a \in EntryType}
    /\ m1 \in BOOLEAN /\ m2 \in BOOLEAN
    /\ op = "Vector" /\ tag = "" /\ amount = 0
    /\ old = [v |-> v, v2 |-> v2, m1 |-> m1, m2 |-> m2]
    /\ retB = FALSE /\ retV = 0
    /\ status = "ok"

\* the call being made and the objects as they are on entry
Entry(o, t, a) ==
    /\ status = "ok"
    /\ op' = o /\ tag' = t /\ amount' = a
    /\ old' = [v |-> v, v2 |-> v2, m1 |-> m1, m2 |-> m2]

Returns(b, x) == retB' = b /\ retV' = x /\ status' = "ok"
NoReturn == Returns(FALSE, 0)

\* m1 = Mask(b) or m2 = Mask(b)
MaskBroadcast ==
    \E b \in BOOLEAN, target \in {"m1", "m2"} :
        /\ Entry("Mask", target, 0)
        /\ m1' = (IF target = "m1" THEN b ELSE m1)
        /\ m2' = (IF target = "m2" THEN b ELSE m2)
        /\ NoReturn
        /\ UNCHANGED <<v, v2>>

\* m1 = (v symbol v2)
Compare ==
    \E symbol \in CompareSymbols :
        /\ Entry("compare", symbol, 0)
        /\ m1' = OPcmp(symbol, v, v2)
        /\ NoReturn
        /\ UNCHANGED <<v, v2, m2>>

\* v.setZero()
SetZero ==
    /\ Entry("setZero", "", 0)
    /\ v' = setZero(v)
    /\ NoReturn
    /\ UNCHANGED <<v2, m1, m2>>

\* v.setZero(m1)
SetZeroMask ==
    /\ Entry("setZero(Mask)", "", 0)
    /\ v' = setZero_mask(v, m1)
    /\ NoReturn
    /\ UNCHANGED <<v2, m1, m2>>

\* v.setZeroInverted(m1)
SetZeroInverted ==
    /\ Entry("setZeroInverted", "", 0)
    /\ v' = setZeroInverted(v, m1)
    /\ NoReturn
    /\ UNCHANGED <<v2, m1, m2>>

\* v.assign(v2, m1)
Assign ==
    /\ Entry("assign", "", 0)
    /\ v' = assign(v, v2, m1)
    /\ NoReturn
    /\ UNCHANGED <<v2, m1, m2>>

\* v.pack(m1, v2, m2)
Pack ==
    LET r == pack(v, m1, v2, m2) IN
        /\ Entry("pack", "", 0)
        /\ v' = r.m_data /\ m1' = r.m1 /\ m2' = r.m2
        /\ Returns(r.ret, 0)
        /\ UNCHANGED v2

\* v.min(), v.max(), v.product(), v.sum()
Reduce ==
    \E f \in {"min", "max", "product", "sum"} :
        /\ Entry(f, "", 0)
        /\ Returns(FALSE, CASE f = "min" -> min(v)
                            [] f = "max" -> max(v)
                            [] f = "product" -> product(v)
                            [] f = "sum" -> sum(v))
        /\ UNCHANGED <<v, v2, m1, m2>>

\* v.min(m1), v.max(m1), v.product(m1), v.sum(m1)
ReduceMask ==
    \E f \in {"min", "max", "product", "sum"} :
        /\ Entry(f, "Mask", 0)
        /\ Returns(FALSE, CASE f = "min" -> min_mask(v, m1)
                            [] f = "max" -> max_mask(v, m1)
                            [] f = "product" -> product_mask(v, m1)
                            [] f = "sum" -> sum_mask(v, m1))
        /\ UNCHANGED <<v, v2, m1, m2>>

\* v.shifted(amt)
Shifted ==
    \E amt \in Amounts :
        /\ Entry("shifted", "", amt)
        /\ Returns(FALSE, shifted(v, amt))
        /\ UNCHANGED <<v, v2, m1, m2>>

\* v.shifted(amt, v2): a build with assertions aborts on an amount outside
\* -1 .. 1, a build without them returns shiftIn
ShiftedFill ==
    \E amt \in Amounts :
        /\ Entry("shifted", "fill", amt)
        /\ \/ Returns(FALSE, shifted_fill(v, amt, v2))
           \/ /\ ~shiftedAssert(amt)
              /\ retB' = FALSE /\ retV' = 0 /\ status' = "assert"
        /\ UNCHANGED <<v, v2, m1, m2>>

\* conditional_assign<name>(v, m1, v2)
ConditionalAssign ==
    \E name \in ValueTags :
        LET r == conditional_assign(name, v, m1, v2) IN
            /\ Entry("conditional_assign", name, 0)
            /\ retB' = FALSE /\ retV' = 0
            /\ IF r.defined
               THEN v' = r.val /\ status' = "ok"
               ELSE v' \in EntryType /\ status' = "ub"
            /\ UNCHANGED <<v2, m1, m2>>

\* conditional_assign<name>(v, m1)
ConditionalIncDec ==
    \E name \in IncDecTags :
        LET r == conditional_assign_incdec(name, v, m1) IN
            /\ Entry("conditional_assign", name, 0)
            /\ retB' = FALSE
            /\ IF r.defined
               THEN v' = r.val /\ retV' = r.ret /\ status' = "ok"
               ELSE v' \in EntryType /\ retV' \in {v, v'} /\ status' = "ub"
            /\ UNCHANGED <<v2, m1, m2>>

Next ==
    \/ MaskBroadcast
    \/ Compare
    \/ SetZero
    \/ SetZeroMask
    \/ SetZeroInverted
    \/ Assign
    \/ Pack
    \/ Reduce
    \/ ReduceMask
    \/ Shifted
    \/ ShiftedFill
    \/ ConditionalAssign
    \/ ConditionalIncDec

Spec == Init /\ [][Next]_vars

(***************************************************************************)
(* Properties.  op, tag and amount name the last call; old holds v, v2,    *)
(* m1 and m2 as they were on entry to it.                                  *)
(***************************************************************************)

Absorbed == ~old.m1 /\ old.m2
Occupied(a, b) == (IF a THEN 1 ELSE 0) + (IF b THEN 1 ELSE 0)

\* C1: v.pack(m1, v2, m2) entered with m1 = false and m2 = true returns true,
\* leaves m1 = true and m2 = false and v equal to v2's value on entry;
\* entered with m1 = true it returns true and changes none of v, v2, m1, m2.
C1_PackCompaction ==
    op = "pack" =>
        /\ (~old.m1 /\ old.m2) => (retB /\ m1 /\ ~m2 /\ v = old.v2)
        /\ old.m1 => (retB /\ v = old.v /\ v2 = old.v2 /\ m1 = old.m1 /\ m2 = old.m2)

C1_Witness ==
    op = "pack" /\ ~old.m1 /\ old.m2 /\ old.v # old.v2 /\ retB /\ v = old.v2

\* C2 as claimed: pack returns true exactly when this call copied v2 into v,
\* that is when m1 was false and m2 true on entry, and false otherwise.
C2_ReturnsAbsorbed ==
    op = "pack" => (retB <=> Absorbed)

\* C2 as amended: pack returns the value m1 has on return: true exactly when
\* m1 was true on entry or this call copied v2 into v, and false exactly
\* when m1 and m2 were both false on entry.
C2_ReturnsOccupied ==
    op = "pack" =>
        /\ retB = m1
        /\ retB <=> (old.m1 \/ Absorbed)
        /\ ~retB <=> (~old.m1 /\ ~old.m2)

C2_Witness ==
    op = "pack" /\ old.m1 /\ old.m2 /\ old.v # old.v2 /\ retB /\ v = old.v

\* C3: v.sum(mask) is v's value when the mask selects the lane and 0 when it
\* does not; v.product(mask) is v's value when the mask selects the lane and
\* 1 when it does not; neither call modifies v.
C3_MaskedIdentity ==
    /\ (op = "sum" /\ tag = "Mask") =>
           /\ old.m1 => retV = old.v
           /\ ~old.m1 => retV = 0
           /\ v = old.v
    /\ (op = "product" /\ tag = "Mask") =>
           /\ old.m1 => retV = old.v
           /\ ~old.m1 => retV = 1
           /\ v = old.v

C3_Witness ==
    op = "product" /\ tag = "Mask" /\ ~old.m1 /\ old.v \notin {0, 1} /\ retV = 1

\* bit i of the two's complement representation of x
Bit(x, i) == (ToUnsigned(x) \div Pow2(i)) % 2

\* r is a Op b for the C++ operator of the tag, stated arithmetically
IsResultOf(name, a, b, r) ==
    CASE name = "Assign" -> r = b
      [] name = "PlusAssign" -> r = a + b
      [] name = "MinusAssign" -> r = a - b
      [] name = "MultiplyAssign" -> r = a * b
      [] name = "DivideAssign" ->
            /\ Abs(a - r * b) < Abs(b)
            /\ (a - r * b) * a >= 0
      [] name = "RemainderAssign" ->
            /\ Abs(r) < Abs(b)
            /\ r * a >= 0
            /\ \E q \in EntryType : a = q * b + r
      [] name = "XorAssign" ->
            \A i \in 0 .. WBits - 1 : (Bit(r, i) = 1) <=> (Bit(a, i) # Bit(b, i))
      [] name = "AndAssign" ->
            \A i \in 0 .. WBits - 1 : (Bit(r, i) = 1) <=> (Bit(a, i) = 1 /\ Bit(b, i) = 1)
      [] name = "OrAssign" ->
            \A i \in 0 .. WBits - 1 : (Bit(r, i) = 1) <=> (Bit(a, i) = 1 \/ Bit(b, i) = 1)
      [] name = "LeftShiftAssign" -> ToUnsigned(r) = a * Pow2(b)
      [] name = "RightShiftAssign" -> r * Pow2(b) <= a /\ a < (r + 1) * Pow2(b)

\* C4: conditional_assign<Op>(lhs, mask, rhs) with a full mask leaves
\* lhs = (old lhs Op rhs) and rhs unchanged, for each of the eleven value
\* tags, whenever C++ defines old lhs Op rhs; and Vector<int>(5) compared
\* > Vector<int>(3) gives a full mask under which sum(mask) is 5 and
\* conditional_assign<PlusAssign> with Vector<int>(2) leaves 7.
C4_FullMaskApplies ==
    /\ (op = "conditional_assign" /\ tag \in ValueTags /\ isFull(old.m1) /\ status = "ok") =>
           /\ IsResultOf(tag, old.v, old.v2, v)
           /\ v2 = old.v2
    /\ LET x == Vector(5)
           mask == OPcmp(">", x, Vector(3))
           r == conditional_assign("PlusAssign", x, mask, Vector(2))
       IN  isFull(mask) /\ sum_mask(x, mask) = 5 /\ r.defined /\ r.val = 7

C4_Witness ==
    /\ op = "conditional_assign" /\ tag = "PlusAssign" /\ status = "ok"
    /\ old.v = 5 /\ old.v2 = 2 /\ isFull(old.m1) /\ v = 7 /\ v2 = 2

Delta(name) == IF name \in {"PostIncrement", "PreIncrement"} THEN 1 ELSE 0 - 1

\* C5: conditional_assign<Op>(lhs, mask) for the four increment/decrement
\* tags: with a full mask lhs changes by exactly one (+1 increments, -1
\* decrements), the Pre forms return the new lhs and the Post forms the lhs
\* on entry; with a mask that is not full lhs is not modified and its value
\* is returned.  The call is undefined only when a full mask steps lhs out
\* of the range of int.
C5_IncDec ==
    (op = "conditional_assign" /\ tag \in IncDecTags) =>
        /\ status = "ok" =>
               IF isFull(old.m1)
               THEN /\ v = old.v + Delta(tag)
                    /\ tag \in {"PreIncrement", "PreDecrement"} => retV = v
                    /\ tag \in {"PostIncrement", "PostDecrement"} => retV = old.v
               ELSE v = old.v /\ retV = old.v
        /\ status # "ok" => (isFull(old.m1) /\ ~InRange(old.v + Delta(tag)))

C5_Witness ==
    /\ op = "conditional_assign" /\ tag = "PostIncrement" /\ status = "ok"
    /\ isFull(old.m1) /\ v = old.v + 1 /\ retV = old.v

\* C6: after v.assign(s, m) v holds s's lane if m selects it and its own
\* previous lane otherwise; s and m are unchanged; with a full mask the
\* result is that of the unmasked assignment v = s.
C6_MaskedWrite ==
    op = "assign" =>
        /\ old.m1 => v = old.v2
        /\ ~old.m1 => v = old.v
        /\ v2 = old.v2 /\ m1 = old.m1 /\ m2 = old.m2
        /\ isFull(old.m1) => v = v2

C6_Witness ==
    op = "assign" /\ ~old.m1 /\ old.v # old.v2 /\ v = old.v

C7_Lanes ==
    /\ op = "setZero" => v = 0
    /\ op = "setZero(Mask)" =>
           /\ old.m1 => v = 0
           /\ ~old.m1 => v = old.v
    /\ op = "setZeroInverted" =>
           /\ ~old.m1 => v = 0
           /\ old.m1 => v = old.v
    /\ op \in {"setZero", "setZero(Mask)", "setZeroInverted"} =>
           (v2 = old.v2 /\ m1 = old.m1 /\ m2 = old.m2)

C7_Sequence ==
    (op = "setZero(Mask)" /\ op' = "setZeroInverted") => v' = 0

\* C7: setZero() zeroes the lane whatever it held; setZero(mask) zeroes it
\* exactly when the mask selects it and setZeroInverted(mask) exactly when
\* the mask does not, leaving it unchanged otherwise; and setZero(m)
\* followed by setZeroInverted(m) leaves the all-zero vector.
C7_Zeroing == [](C7_Lanes) /\ [][C7_Sequence]_vars

C7_Witness ==
    op = "setZeroInverted" /\ ~old.m1 /\ old.v # 0 /\ v = 0

\* C8: v.shifted(0) and v.shifted(0, fill) equal v; v.shifted(Size) with no
\* fill equals the all-zero vector; v.shifted(amount, fill) for amount -1
\* or 1 equals fill and trips no assertion; shifted never modifies v.
C8_ShiftBoundary ==
    op = "shifted" =>
        /\ (tag = "" /\ amount = 0) => retV = old.v
        /\ (tag = "" /\ amount = Size) => retV = 0
        /\ (tag = "fill" /\ amount = 0) => (status = "ok" /\ retV = old.v)
        /\ (tag = "fill" /\ amount \in {0 - 1, 1}) => (status = "ok" /\ retV = old.v2)
        /\ v = old.v /\ v2 = old.v2

C8_Witness ==
    /\ op = "shifted" /\ tag = "fill" /\ amount = 0 - 1
    /\ old.v # old.v2 /\ retV = old.v2 /\ v = old.v

Reductions == {"min", "max", "product", "sum"}

\* C9: for a vector holding x, sum(), product(), min() and max() return x,
\* and sum(m), product(m), min(m), max(m) with m selecting the lane return x.
C9_Reductions ==
    op \in Reductions =>
        /\ tag = "" => retV = old.v
        /\ (tag = "Mask" /\ isFull(old.m1)) => retV = old.v
        /\ v = old.v

C9_Witness ==
    op = "sum" /\ tag = "Mask" /\ old.m1 /\ old.v \notin {0, 1} /\ retV = old.v

C10_Call ==
    op = "pack" =>
        /\ Occupied(m1, m2) = Occupied(old.m1, old.m2)
        /\ v2 = old.v2
        /\ v # old.v => Absorbed
        /\ ~(~m1 /\ m2)

C10_Repeat ==
    (op = "pack" /\ op' = "pack") => <<v, v2, m1, m2>>' = <<v, v2, m1, m2>>

\* C10: every call v.pack(m1, v2, m2) keeps the number of true flags among
\* m1 and m2, never modifies v2, changes v only when entered with m1 false
\* and m2 true, and never returns with m1 false and m2 true; a pack call
\* repeated at once changes none of v, v2, m1, m2.
C10_PackConserves == [](C10_Call) /\ [][C10_Repeat]_vars

C10_Witness ==
    /\ op = "pack" /\ Absorbed /\ v # old.v /\ m1 /\ ~m2
    /\ Occupied(m1, m2) = 1

\* C11: for every lhs, rhs and mask, conditional_assign<Op>(lhs, mask, rhs)
\* leaves lhs = (old lhs Op rhs) when the mask selects the lane (and C++
\* defines the operation) and lhs unchanged, with nothing undefined, when it
\* does not; rhs and the mask are unchanged; and conditional_assign<Assign>
\* and lhs.assign(rhs, mask) leave the same lhs from the same entry state.
C11_AgreesWithMaskedAssign ==
    /\ (op = "conditional_assign" /\ tag \in ValueTags) =>
           /\ (data(old.m1) /\ status = "ok") => IsResultOf(tag, old.v, old.v2, v)
           /\ ~data(old.m1) => (status = "ok" /\ v = old.v)
           /\ v2 = old.v2 /\ m1 = old.m1 /\ m2 = old.m2
           /\ tag = "Assign" => (status = "ok" /\ v = assign(old.v, old.v2, old.m1))
    /\ op = "assign" =>
           LET r == conditional_assign("Assign", old.v, old.m1, old.v2)
           IN  r.defined /\ v = r.val

C11_Witness ==
    /\ op = "conditional_assign" /\ tag = "MultiplyAssign" /\ status = "ok"
    /\ ~data(old.m1) /\ old.v * old.v2 # old.v /\ v = old.v

====
